---- MODULE Spec2Model ----
(***************************************************************************)
(* Episode token parsing and mirror reconciliation of the gimy / idoltv    *)
(* extractors (yt_dlp/extractor/gimy.py, yt_dlp/extractor/idoltv.py).      *)
(*                                                                         *)
(* A label is a sequence of characters.  A character is a one-element      *)
(* string for ASCII and a short upper-case name for the CJK characters the *)
(* regular expressions of the source mention:                              *)
(*   "DI"  U+7B2C   "JI"  U+96C6   "SHANG" U+4E0A   "XIA" U+4E0B           *)
(*   "LP"  U+FF08   "RP"  U+FF09   "YU"    U+9810   "GAO" U+544A           *)
(*   "TAB" the tab character (whitespace that is not ' ')                  *)
(* A token is a record [v, part, k]: the tuple (value, part, kind) of the  *)
(* source, kind in "d" (date), "e" (episode number), "r" (resolution),     *)
(* "n" (literal).  A number (a float of the source) is kept as the pair of  *)
(* its integer digits without leading zeros and its four fraction digits,  *)
(* which is exact for the floats below 2^53 that the labels here produce.  *)
(***************************************************************************)
EXTENDS Naturals, Integers, Sequences, FiniteSets, TLC

(* the extractor, the arguments of the reconciler, its position and its result *)
VARIABLES ie, links, episode, current_source, pc, li, ei, src

(* the argument of a call of _parse_episode and the lists its calls returned *)
VARIABLES text, out

(* the playlist of a detail page, the position of its loop (tab and entry) and *)
(* the entries of the result                                                   *)
VARIABLES playlist, ti, yi, entries

(* the links of the page as _extract_links read them *)
VARIABLES webpage

(* the remote site, the parameters of the downloader, the argument of the  *)
(* extractor, the downloads made so far and what _real_extract returned or *)
(* raised                                                                  *)
VARIABLES site, params, url, requests, outcome

(* locals of the extractors: the prefix of the entries' URLs, the videos a *)
(* walk has visited and the one at hand, the end of a search result, and   *)
(* the formats found                                                       *)
VARIABLES url_prefix, visited, video_id, result_end, formats

session == <<site, params, url, requests, outcome, url_prefix, visited, video_id, result_end, formats>>

vars == <<ie, links, episode, current_source, pc, li, ei, src, text, out, playlist, ti, yi, entries, webpage, session>>

Digits == <<"0", "1", "2", "3", "4", "5", "6", "7", "8", "9">>

IsDigit(c) == \E i \in 1..10 : Digits[i] = c

DigitVal(c) == (CHOOSE i \in 1..10 : Digits[i] = c) - 1

IsSpace(c) == c \in {" ", "TAB"}

Min(S) == CHOOSE m \in S : \A n \in S : m <= n

Max(S) == CHOOSE m \in S : \A n \in S : n <= m

(* s[a..b] as a sequence; empty when b < a *)
Slice(s, a, b) == [i \in 1..(b - a + 1) |-> s[a + i - 1]]

(* int(s) of a string of digits *)
RECURSIVE ToInt(_)
ToInt(s) == IF s = <<>> THEN 0
            ELSE 10 * ToInt(Slice(s, 1, Len(s) - 1)) + DigitVal(s[Len(s)])

(* end of the run of digits that starts at position i *)
RECURSIVE RunEnd(_, _)
RunEnd(s, i) == IF i < Len(s) /\ IsDigit(s[i + 1]) THEN RunEnd(s, i + 1) ELSE i

(* start of the run of digits that holds position i *)
RECURSIVE RunStart(_, _)
RunStart(s, i) == IF i > 1 /\ IsDigit(s[i - 1]) THEN RunStart(s, i - 1) ELSE i

(* positions where a run of digits begins *)
RunStarts(s) == {i \in 1..Len(s) : IsDigit(s[i]) /\ RunStart(s, i) = i}

(* case-insensitive comparison of a character with a lower-case letter *)
Lower(c) ==
    CASE c = "E" -> "e" [] c = "P" -> "p" [] c = "I" -> "i" [] c = "S" -> "s"
      [] c = "O" -> "o" [] c = "D" -> "d" [] c = "H" -> "h" [] c = "F" -> "f"
      [] c = "T" -> "t" [] c = "C" -> "c" [] OTHER -> c

(* s has the characters of w at position i, ignoring case *)
HasAt(s, i, w) == /\ i >= 1
                  /\ i + Len(w) - 1 <= Len(s)
                  /\ \A j \in 1..Len(w) : Lower(s[i + j - 1]) = w[j]

(* string.replace(U+4E0A, '-1').replace(U+4E0B, '-2') *)
RECURSIVE ReplaceParts(_)
ReplaceParts(s) ==
    IF s = <<>> THEN <<>>
    ELSE (CASE s[1] = "SHANG" -> <<"-", "1">>
            [] s[1] = "XIA" -> <<"-", "2">>
            [] OTHER -> <<s[1]>>) \o ReplaceParts(Tail(s))

(* a split that drops the empty pieces, as str.split() does *)
RECURSIVE SplitNonEmpty(_)
SplitNonEmpty(s) ==
    IF s = <<>> THEN <<>>
    ELSE IF \A i \in 1..Len(s) : s[i] # " " THEN <<s>>
    ELSE LET p == Min({i \in 1..Len(s) : s[i] = " "})
         IN  (IF p = 1 THEN <<>> ELSE <<Slice(s, 1, p - 1)>>)
             \o SplitNonEmpty(Slice(s, p + 1, Len(s)))

(* str.split(' '): the pieces between single spaces, empty pieces kept *)
RECURSIVE Split(_)
Split(s) ==
    IF \A i \in 1..Len(s) : s[i] # " " THEN <<s>>
    ELSE LET p == Min({i \in 1..Len(s) : s[i] = " "})
         IN  <<Slice(s, 1, p - 1)>> \o Split(Slice(s, p + 1, Len(s)))

(* one leading '0' is dropped by 0?(\d+) when a digit follows it *)
StripZero(r) == IF Len(r) >= 2 /\ r[1] = "0" THEN Tail(r) ELSE r

(* [-_]0?(\d+)[JI RP]?$ : the digits that end the label, behind '-' or '_' *)
PartSuffix(ep) ==
    LET n == Len(ep)
        last == IF n >= 1 /\ ep[n] \in {"JI", "RP"} THEN n - 1 ELSE n
    IN  IF last >= 1 /\ IsDigit(ep[last])
        THEN LET rs == RunStart(ep, last)
             IN  IF rs > 1 /\ ep[rs - 1] \in {"-", "_"}
                 THEN <<StripZero(Slice(ep, rs, last))>>
                 ELSE <<>>
        ELSE <<>>

(* the part tag of a label: findall(suffix) or findall(YU GAO) or [''] *)
PartOf(ep) ==
    IF PartSuffix(ep) # <<>> THEN PartSuffix(ep)[1]
    ELSE IF \E i \in 1..Len(ep) : HasAt(ep, i, <<"YU", "GAO">>) THEN <<"YU", "GAO">>
    ELSE <<>>

(* \d{2}[01]\d[0-3]\d at position q *)
DatePatAt(s, q) ==
    /\ q + 5 <= Len(s)
    /\ \A j \in 0..5 : IsDigit(s[q + j])
    /\ s[q + 2] \in {"0", "1"}
    /\ s[q + 4] \in {"0", "1", "2", "3"}

(* \d{6} at position q *)
SixAt(s, q) == q + 5 <= Len(s) /\ \A j \in 0..5 : IsDigit(s[q + j])

(* gimy: re.findall(r'(?:19|20)?\d*(\d{2}[01]\d[0-3]\d)', e)[0][-6:], <<>> when *)
(* re.search(r'(19|20)?\d*\d{2}[01]\d[0-3]\d', e) finds nothing.  The match    *)
(* begins where the run of digits of the first window begins, and the greedy   *)
(* \d* leaves the last window of that run to the group.                        *)
GimyDate(s) ==
    LET Q == {q \in 1..Len(s) : DatePatAt(s, q)}
    IN  IF Q = {} THEN <<>>
        ELSE LET p == RunStart(s, Min(Q))
                 q == Max({r \in Q : RunStart(s, r) = p})
             IN  <<Slice(s, q, q + 5)>>

(* idoltv: re.findall(r'(?:19|20)?(\d{6})', x)[0][-6:], <<>> when              *)
(* re.search(r'(19|20)?\d{6}', x) finds nothing.                               *)
IdoltvDate(s) ==
    LET Q == {q \in 1..Len(s) : SixAt(s, q)}
    IN  IF Q = {} THEN <<>>
        ELSE LET p == Min(Q)
             IN  IF (HasAt(s, p, <<"1", "9">>) \/ HasAt(s, p, <<"2", "0">>)) /\ SixAt(s, p + 2)
                 THEN <<Slice(s, p + 2, p + 7)>>
                 ELSE <<Slice(s, p, p + 5)>>

(* positions reached from i by \s* *)
AfterSpaces(s, i) == {j \in i..(Len(s) + 1) : \A m \in i..(j - 1) : IsSpace(s[m])}

(* re.search(r'(DI\d+JI)|(ep?\s*\d+)|(episode\s*\d+)|LP\d+RP', e, re.IGNORECASE) *)
EpSearch(s) ==
    \E i \in 1..Len(s) :
        \/ /\ s[i] = "DI"
           /\ i < Len(s) /\ IsDigit(s[i + 1])
           /\ RunEnd(s, i + 1) < Len(s) /\ s[RunEnd(s, i + 1) + 1] = "JI"
        \/ /\ Lower(s[i]) = "e"
           /\ \E j \in AfterSpaces(s, IF HasAt(s, i + 1, <<"p">>) THEN i + 2 ELSE i + 1) :
                  j <= Len(s) /\ IsDigit(s[j])
        \/ /\ HasAt(s, i, <<"e", "p", "i", "s", "o", "d", "e">>)
           /\ \E j \in AfterSpaces(s, i + 7) : j <= Len(s) /\ IsDigit(s[j])
        \/ /\ s[i] = "LP"
           /\ i < Len(s) /\ IsDigit(s[i + 1])
           /\ RunEnd(s, i + 1) < Len(s) /\ s[RunEnd(s, i + 1) + 1] = "RP"

(* (?:DI|ep?\s*|episode\s*|LP)+ matches s[i..q-1] in some number (>= 0) of pieces *)
RECURSIVE Prefixes(_, _, _)
Prefixes(s, i, q) ==
    \/ i = q
    \/ /\ i < q
       /\ \/ s[i] \in {"DI", "LP"} /\ Prefixes(s, i + 1, q)
          \/ /\ Lower(s[i]) = "e"
             /\ \/ \E j \in AfterSpaces(s, i + 1) : j <= q /\ Prefixes(s, j, q)
                \/ /\ HasAt(s, i + 1, <<"p">>)
                   /\ \E j \in AfterSpaces(s, i + 2) : j <= q /\ Prefixes(s, j, q)
                \/ /\ HasAt(s, i, <<"e", "p", "i", "s", "o", "d", "e">>)
                   /\ \E j \in AfterSpaces(s, i + 7) : j <= q /\ Prefixes(s, j, q)

(* re.findall(r'(?:DI|ep?\s*|episode\s*|LP)+0?(\d+)[JI RP]?', e, re.IGNORECASE)[0]: *)
(* the digits behind the leftmost position from which prefixes reach a digit; no  *)
(* prefix holds a digit, so they end at the first digit behind that position      *)
EpFind(s) ==
    LET P == {i \in 1..Len(s) :
                 /\ ~IsDigit(s[i])
                 /\ \E q \in (i + 1)..Len(s) :
                        /\ IsDigit(s[q])
                        /\ \A m \in i..(q - 1) : ~IsDigit(s[m])
                        /\ Prefixes(s, i, q)}
        q == Min({j \in Min(P)..Len(s) : IsDigit(s[j])})
    IN  StripZero(Slice(s, q, RunEnd(s, q)))

(* re.search(r'^\D*\d{1,4}\D*$', e): one run of digits, of 1 to 4 digits *)
BareSearch(s) ==
    /\ Cardinality(RunStarts(s)) = 1
    /\ \A i \in RunStarts(s) : RunEnd(s, i) - i + 1 <= 4

(* re.findall(r'0?(\d{1,4})', e)[0] on a segment BareSearch accepts *)
BareFind(s) ==
    LET i == Min(RunStarts(s)) IN StripZero(Slice(s, i, RunEnd(s, i)))

(* first position of \d{1,4}[-+]\d{1,4} behind ^\D? , 0 when there is no match *)
RangeStart(s) ==
    LET i == IF Len(s) >= 1 /\ IsDigit(s[1]) THEN 1 ELSE 2
    IN  IF /\ i <= Len(s) /\ IsDigit(s[i])
           /\ RunEnd(s, i) - i + 1 <= 4
           /\ RunEnd(s, i) + 2 <= Len(s)
           /\ s[RunEnd(s, i) + 1] \in {"-", "+"}
           /\ IsDigit(s[RunEnd(s, i) + 2])
        THEN i ELSE 0

(* re.search(r'^\D?\d{1,4}[-+]\d{1,4}', e) *)
RangeSearch(s) == RangeStart(s) # 0

(* re.findall(r'0?(\d{1,4})[-+]0?(\d{1,4})', e)[0] on a segment RangeSearch accepts *)
RangeFind(s) ==
    LET i == RangeStart(s)
        m == RunEnd(s, i) + 2
        n1 == StripZero(Slice(s, m, RunEnd(s, m)))
    IN  <<StripZero(Slice(s, i, RunEnd(s, i))),
          Slice(n1, 1, IF Len(n1) < 4 THEN Len(n1) ELSE 4)>>

(* \d{3,4}P at the start of the segment *)
DigitsP(s) ==
    /\ Len(s) >= 4
    /\ \A j \in 1..3 : IsDigit(s[j])
    /\ \/ Lower(s[4]) = "p"
       \/ IsDigit(s[4]) /\ Len(s) >= 5 /\ Lower(s[5]) = "p"

(* the quality words both extractors know *)
ResWords ==
    {<<"s", "d">>, <<"h", "d">>, <<"f", "h", "d">>, <<"BIAO", "QING">>, <<"CHAO", "QING">>,
     <<"GAOQ", "QING">>, <<"ZHENG", "PIAN">>, <<"ZHONG", "ZI">>}

(* re.search(r'^(SD|HD|FHD|\d{3,4}P|...|TC)', e, re.IGNORECASE); TC is gimy's only *)
ResSearch(i, s) ==
    \/ \E w \in ResWords : HasAt(s, 1, w)
    \/ DigitsP(s)
    \/ i = "gimy" /\ HasAt(s, 1, <<"t", "c">>)

(* the digits of an integer without its leading zeros *)
RECURSIVE Canon(_)
Canon(digits) == IF Len(digits) >= 2 /\ digits[1] = "0" THEN Canon(Tail(digits)) ELSE digits

(* str.zfill(4) of at most four digits *)
ZFill(digits) == [j \in 1..(4 - Len(digits)) |-> "0"] \o digits

(* float(digits) *)
Number(digits) == <<Canon(digits), <<"0", "0", "0", "0">>>>

(* a range encoding without the zero padding: float(f'{n[0]}.{n[1]}') *)
RangeUnpadded(n) == <<Canon(n[1]), n[2] \o [j \in 1..(4 - Len(n[2])) |-> "0"]>>

(* float(f'{n[0]}.{n[1].zfill(4)}') *)
RangeNumber(n) == <<Canon(n[1]), ZFill(n[2])>>

Token(v, part, k) == [v |-> v, part |-> part, k |-> k]

(* a parser that takes every segment for a literal *)
SegmentLiteral(i, e, part) == <<Token(e, part, "n")>>

(* the list x of one segment e *)
SegmentTokens(i, e, part) ==
    LET date == IF i = "gimy" THEN GimyDate(e) ELSE IdoltvDate(e)
        d == IF date # <<>> THEN <<Token(date[1], part, "d")>> ELSE <<>>
        n == IF EpSearch(e) THEN <<Token(Number(EpFind(e)), part, "e")>>
             ELSE IF BareSearch(e) THEN <<Token(Number(BareFind(e)), part, "e")>>
             ELSE IF RangeSearch(e) THEN <<Token(RangeNumber(RangeFind(e)), part, "e")>>
             ELSE <<>>
        r == IF ResSearch(i, e) THEN <<Token(<<"R", "E", "S">>, part, "r")>> ELSE <<>>
        x == d \o n \o r
    IN  IF Len(x) = 0 THEN <<Token(e, part, "n")>> ELSE x

RECURSIVE AllSegments(_, _, _)
AllSegments(i, segs, part) ==
    IF segs = <<>> THEN <<>>
    ELSE SegmentTokens(i, Head(segs), part) \o AllSegments(i, Tail(segs), part)

(* a parser that returns the tokens in the order of the segments *)
Unsorted(ep) == ep

(* sorted(ep, key=lambda x: x[2]): stable, kinds in the order 'd' < 'e' < 'n' < 'r' *)
SortByKind(ep) ==
    SelectSeq(ep, LAMBDA t : t.k = "d") \o SelectSeq(ep, LAMBDA t : t.k = "e")
    \o SelectSeq(ep, LAMBDA t : t.k = "n") \o SelectSeq(ep, LAMBDA t : t.k = "r")

(* a parser that keeps the tokens of its earlier calls *)
ParseKeeping(i, string) ==
    (IF out = <<>> THEN <<>> ELSE out[Len(out)])
    \o SortByKind(AllSegments(i, Split(ReplaceParts(string)), PartOf(ReplaceParts(string))))

(* GimyIE._parse_episode (i = "gimy") and IdoltvIE._parse_episode (i = "idoltv") *)
_parse_episode(i, string) ==
    LET replaced == ReplaceParts(string)
    IN  SortByKind(AllSegments(i, Split(replaced), PartOf(replaced)))

(***************************************************************************)
(* datetime.strptime(s, '%y%m%d') on six digits.                           *)
(***************************************************************************)
YearOf(s) == LET yy == ToInt(Slice(s, 1, 2)) IN IF yy < 69 THEN 2000 + yy ELSE 1900 + yy

MonthOf(s) == ToInt(Slice(s, 3, 4))

DayOf(s) == ToInt(Slice(s, 5, 6))

IsLeap(y) == (y % 4 = 0 /\ y % 100 # 0) \/ y % 400 = 0

DaysInMonth(y, m) ==
    IF m = 2 THEN (IF IsLeap(y) THEN 29 ELSE 28)
    ELSE IF m \in {4, 6, 9, 11} THEN 30 ELSE 31

(* strptime returns a date; otherwise it raises ValueError *)
StrptimeOk(s) ==
    /\ MonthOf(s) \in 1..12
    /\ DayOf(s) >= 1
    /\ DayOf(s) <= DaysInMonth(YearOf(s), MonthOf(s))

RECURSIVE DaysBeforeMonth(_, _)
DaysBeforeMonth(y, m) ==
    IF m <= 1 THEN 0 ELSE DaysBeforeMonth(y, m - 1) + DaysInMonth(y, m - 1)

(* the ordinal of the date strptime returns *)
Ordinal(s) ==
    LET y == YearOf(s) - 1
    IN  365 * y + (y \div 4) - (y \div 100) + (y \div 400)
        + DaysBeforeMonth(YearOf(s), MonthOf(s)) + DayOf(s)

Abs(n) == IF n < 0 THEN 0 - n ELSE n

(* the date a candidate is given when it has no date token of the part: ('500101', '', '') *)
DefaultDate == <<"5", "0", "0", "1", "0", "1">>

(* ([x for x in ep if x[1] == e[1] and x[2] == 'd'] or [('500101', '', '')])[0][0] *)
DateFor(ep, e) ==
    LET ds == SelectSeq(ep, LAMBDA x : x.part = e.part /\ x.k = "d")
    IN  IF ds = <<>> THEN DefaultDate ELSE ds[1].v

(* a == b on two tokens (tuples of the source) *)
TokEq(a, b) == a.k = b.k /\ a.part = b.part /\ a.v = b.v

(* e in ep *)
TokIn(e, ep) == \E i \in 1..Len(ep) : TokEq(e, ep[i])

(* y in src *)
InList(y, s) == \E i \in 1..Len(s) : s[i] = y

(***************************************************************************)
(* The inputs: the labels a page may carry, the pages (lists of source     *)
(* groups, as _extract_links returns them) and the label and source of the *)
(* current page.                                                           *)
(***************************************************************************)
MaxLinks == 3

IEs == {"gimy", "idoltv"}

Sources == {"A", "B"}

Di4Ji == <<"DI", "4", "JI">>

Di4JiHD == <<"DI", "4", "JI", " ", "H", "D">>

Di5JiHD == <<"DI", "5", "JI", " ", "H", "D">>

EP4 == <<"E", "P", "4">>

Ep04HD == <<"E", "p", "0", "4", " ", "H", "D">>

HD == <<"H", "D">>

D250630 == <<"2", "5", "0", "6", "3", "0">>

D250701 == <<"2", "5", "0", "7", "0", "1">>

D250702 == <<"2", "5", "0", "7", "0", "2">>

D250701Shang == <<"2", "5", "0", "7", "0", "1", "SHANG">>

D250632 == <<"2", "5", "0", "6", "3", "2">>

D500102 == <<"5", "0", "0", "1", "0", "2">>

P1080 == <<"1", "0", "8", "0", "P">>

(* labels that carry episode numbers and quality markers *)
EpLabels == {Di4Ji, Di4JiHD, Di5JiHD, EP4, Ep04HD}

EpRefs == {Di4Ji, Di4JiHD}

(* labels that carry dates; 250632 is six digits that are no calendar date *)
DateLabels == {D250630, D250701, D250702, D250701Shang, D250632}

DateRefs == {D250630, D250701Shang}

(* labels that carry nothing but a quality marker, next to dated ones *)
ResLabels == {HD, P1080, D250701}

ResRefs == {HD, D500102, D250630}

E285D250621 == <<"E", "2", "8", "5", ".", "2", "5", "0", "6", "2", "1">>

EP285 == <<"E", "P", "2", "8", "5">>

Di286Ji == <<"DI", "2", "8", "6", "JI">>

D250621 == <<"2", "5", "0", "6", "2", "1">>

(* labels of one episode by its number, by its date and by both *)
BothLabels == {E285D250621, EP285, D250621, Di286Ji, D250632}

BothRefs == {E285D250621}

D250620D250622 == <<"2", "5", "0", "6", "2", "0", " ", "2", "5", "0", "6", "2", "2">>

D250621D250622 == <<"2", "5", "0", "6", "2", "1", " ", "2", "5", "0", "6", "2", "2">>

(* dated labels, and labels of two dates: two days apart, and one day apart *)
TwoDateLabels == {D250621, D250630, EP285, D250621D250622}

TwoDateRefs == {D250620D250622, D250621D250622}

D250629 == <<"2", "5", "0", "6", "2", "9">>

(* labels of the entries of a detail page: one episode by its number in two *)
(* forms, dates one day apart, six digits that are no date, a quality marker *)
PlaylistLabels == {EP4, Di4Ji, D250629, D250630, D250632, HD}

AllLabels ==
    EpLabels \cup EpRefs \cup DateLabels \cup DateRefs \cup ResLabels \cup ResRefs
    \cup BothLabels \cup BothRefs \cup PlaylistLabels
    \cup TwoDateLabels \cup TwoDateRefs

(* the token lists of the labels, computed once *)
ParseTable == [x \in IEs \X AllLabels |-> _parse_episode(x[1], x[2])] @@ <<>>

(* self._parse_episode(label) of the extractor i *)
Parsed(i, label) == ParseTable[<<i, label>>]

(* the lists of n labels *)
LabelLists(labels, n) == [1..n -> labels]

(* the pages of at most n links: every source tab lists at least one link *)
RECURSIVE Pages(_, _)
Pages(labels, n) ==
    {<<>>} \cup
    UNION {LET rest == Pages(labels, n - k)
           IN  {<<[source |-> x[1], labels |-> x[2]]>> \o x[3] :
                   x \in Sources \X LabelLists(labels, k) \X rest} : k \in 1..n}

(* the k-th link of the g-th tab is the pair (href, label); hrefs are distinct *)
WithHrefs(page) ==
    [g \in 1..Len(page) |->
        [source |-> page[g].source,
         links |-> [k \in 1..Len(page[g].labels) |-> <<<<g, k>>, page[g].labels[k]>>]]]

(***************************************************************************)
(* The reconciler: GimyIE._extract_other_src(links, episode,               *)
(* current_source) and the same loop over other_src in                     *)
(* IdoltvIE._real_extract.  One step is one pass of the loop over the      *)
(* tokens e of the label, for one source group l.                          *)
(***************************************************************************)

(* a reconciler that walks every group *)
EveryGroup(ls, cur) == ls

(* [l for l in links if l['source'] != current_source] *)
Others(ls, cur) == SelectSeq(ls, LAMBDA l : l.source # cur)

(* y += (l['source'],) binds y to a new tuple (href, label, source) *)
Entries(l) == [k \in 1..Len(l.links) |-> <<l.links[k][1], l.links[k][2], l.source>>]

(* a reconciler whose y += ... extends the entries of l['links'] in place *)
LinksExtended(ls, l) ==
    [g \in 1..Len(ls) |->
        IF ls[g] = l
        THEN [source |-> l.source,
              links |-> [k \in 1..Len(l.links) |-> Append(l.links[k], l.source)]]
        ELSE ls[g]]

(* the tuples of l['links'] are what they were: y += ... changes no list *)
LinksAfter(ls, l) == ls

(* a tolerance of any number of days *)
SomeDaysApart(a, b) == Abs(Ordinal(a) - Ordinal(b)) >= 1

(* abs((strptime(e[0]) - strptime(date of ep)).days) == 1 *)
OneDayApart(a, b) == Abs(Ordinal(a) - Ordinal(b)) = 1

(* z: if y not in src and e in ep *)
ExactList(i, l, e, s) ==
    SelectSeq(Entries(l), LAMBDA y : ~InList(y, s) /\ TokIn(e, Parsed(i, y[2])))

(* d: if e[2] == 'd' and abs(...) == 1 *)
NearList(i, l, e) ==
    SelectSeq(Entries(l),
              LAMBDA y : e.k = "d" /\ OneDayApart(e.v, DateFor(Parsed(i, y[2]), e)))

(* a strptime of the pass raises ValueError *)
Raises(i, l, e) ==
    /\ e.k = "d"
    /\ \E k \in 1..Len(l.links) :
           \/ ~StrptimeOk(e.v)
           \/ ~StrptimeOk(DateFor(Parsed(i, l.links[k][2]), e))

(* a reconciler that takes the first of several exact matches *)
AcceptFirst(s, z, d) ==
    IF Len(z) >= 1 THEN Append(s, z[1])
    ELSE IF Len(d) = 1 THEN Append(s, d[1])
    ELSE s

(* if len(z) == 1: src.append(z[0]) / elif len(z) == 0 and len(d) == 1: src.append(d[0]) *)
Accept(s, z, d) ==
    IF Len(z) = 1 THEN Append(s, z[1])
    ELSE IF Len(z) = 0 /\ Len(d) = 1 THEN Append(s, d[1])
    ELSE s

CurGroup == Others(links, current_source)[li]

CurToken == Parsed(ie, episode)[ei]

(* no extraction under way: the state of what the loop at hand does not use *)
Idle ==
    /\ site = <<>>
    /\ params = <<>>
    /\ url = <<>>
    /\ requests = <<>>
    /\ outcome = <<>>
    /\ url_prefix = <<>>
    /\ visited = {}
    /\ video_id = <<>>
    /\ result_end = 0
    /\ formats = <<>>

InitWith(labels, refs) ==
    /\ ie \in IEs
    /\ links \in {WithHrefs(p) : p \in Pages(labels, MaxLinks)}
    /\ episode \in refs
    /\ current_source = "A"
    /\ pc = "loop"
    /\ li = 1
    /\ ei = 1
    /\ src = <<>>
    /\ text = <<>>
    /\ out = <<>>
    /\ playlist = <<>>
    /\ ti = 1
    /\ yi = 1
    /\ entries = <<>>
    /\ webpage = links
    /\ Idle

Init == InitWith(EpLabels, EpRefs)

InitDate == InitWith(DateLabels, DateRefs)

InitRes == InitWith(ResLabels, ResRefs)

(* one pass of "for e in self._parse_episode(episode)" for the group l *)
Iterate ==
    /\ pc = "loop"
    /\ li <= Len(Others(links, current_source))
    /\ IF Raises(ie, CurGroup, CurToken)
       THEN /\ pc' = "raised"
            /\ UNCHANGED <<links, li, ei, src>>
       ELSE /\ src' = Accept(src, ExactList(ie, CurGroup, CurToken, src),
                             NearList(ie, CurGroup, CurToken))
            /\ links' = LinksAfter(links, CurGroup)
            /\ IF ei < Len(Parsed(ie, episode))
               THEN ei' = ei + 1 /\ li' = li
               ELSE ei' = 1 /\ li' = li + 1
            /\ pc' = pc
    /\ UNCHANGED <<ie, episode, current_source>>
    /\ UNCHANGED <<text, out, playlist, ti, yi, entries, webpage, session>>

(* return src *)
Return ==
    /\ pc = "loop"
    /\ li > Len(Others(links, current_source))
    /\ pc' = "done"
    /\ UNCHANGED <<ie, links, episode, current_source, li, ei, src>>
    /\ UNCHANGED <<text, out, playlist, ti, yi, entries, webpage, session>>

Next == Iterate \/ Return

Spec == Init /\ [][Next]_vars

SpecDate == InitDate /\ [][Next]_vars

SpecRes == InitRes /\ [][Next]_vars

InitTwoDates == InitWith(TwoDateLabels, TwoDateRefs)

SpecTwoDates == InitTwoDates /\ [][Next]_vars

InitBoth == InitWith(BothLabels, BothRefs)

SpecBoth == InitBoth /\ [][Next]_vars

(***************************************************************************)
(* Properties of the reconciler.                                           *)
(***************************************************************************)
(* the pass for the current group and token is about to run *)
InPass == pc = "loop" /\ li <= Len(Others(links, current_source))

(* the groups of the page that are not of the current source *)
OtherGroups == {g \in 1..Len(links) : links[g].source # current_source}

(* the entries of group g whose tokens hold a token equal to e *)
Holding(g, e) == {k \in 1..Len(links[g].links) : TokIn(e, Parsed(ie, links[g].links[k][2]))}

(* the entries of group g whose tokens hold a token equal to a token of the label *)
HoldingAny(g) ==
    {k \in 1..Len(links[g].links) :
        \E n \in 1..Len(Parsed(ie, episode)) :
            TokIn(Parsed(ie, episode)[n], Parsed(ie, links[g].links[k][2]))}

(* the k-th entry of group g, as the reconciler returns it *)
EntryOf(g, k) == <<links[g].links[k][1], links[g].links[k][2], links[g].source>>

(* the reconciler has returned a list that holds y *)
Returns(y) == pc = "done" /\ InList(y, src)

OpenExact ==
    {k \in 1..Len(CurGroup.links) :
        /\ ~InList(Entries(CurGroup)[k], src)
        /\ TokIn(CurToken, Parsed(ie, CurGroup.links[k][2]))}

C2_UniqueExact ==
    pc # "loop" =>
        \A g \in OtherGroups :
            Cardinality(HoldingAny(g)) = 1
            => \A k \in HoldingAny(g) : Returns(EntryOf(g, k))

(* the date tokens of a label's token list *)
DateTokens(ep) == {n \in 1..Len(ep) : ep[n].k = "d"}

(* two six-digit dates are calendar dates exactly one day apart *)
AdjacentDates(a, b) ==
    StrptimeOk(a) /\ StrptimeOk(b) /\ Abs(Ordinal(a) - Ordinal(b)) = 1

(* C3: once the reconciler has ended, the only entry of a group of another       *)
(* source is in the list it returned whenever the label and the entry's label    *)
(* both embed a six-digit date and the two dates are exactly one day apart.      *)
C3_DateTolerance ==
    pc # "loop" =>
        \A g \in OtherGroups :
            (/\ Len(links[g].links) = 1
             /\ \E n \in DateTokens(Parsed(ie, episode)) :
                    \E m \in DateTokens(Parsed(ie, links[g].links[1][2])) :
                        AdjacentDates(Parsed(ie, episode)[n].v,
                                      Parsed(ie, links[g].links[1][2])[m].v))
            => Returns(EntryOf(g, 1))

(* the label is nothing but six digits that are a calendar date *)
DateOnly(label) ==
    /\ Len(label) = 6
    /\ \A n \in 1..6 : IsDigit(label[n])
    /\ StrptimeOk(label)

(* two date-only labels are two or more days apart *)
FarApart(a, b) ==
    DateOnly(a) /\ DateOnly(b) /\ Abs(Ordinal(a) - Ordinal(b)) >= 2

(* C4: when the label and an entry's label are each nothing but a six-digit date *)
(* and the dates are two or more days apart, the entry is never in the result.   *)
C4_NoFarDate ==
    \A g \in OtherGroups :
        \A k \in 1..Len(links[g].links) :
            FarApart(episode, links[g].links[k][2]) => ~InList(EntryOf(g, k), src)

(* C4: the reconciler has returned, the label is a date, and a group of another  *)
(* source lists a date two or more days away, which is not in the result         *)
C4_Witness ==
    /\ pc = "done"
    /\ \E g \in OtherGroups :
           \E k \in 1..Len(links[g].links) :
               /\ FarApart(episode, links[g].links[k][2])
               /\ ~InList(EntryOf(g, k), src)

(* the entries of the current group that hold the current token *)
AllExact == SelectSeq(Entries(CurGroup), LAMBDA y : TokIn(CurToken, Parsed(ie, y[2])))

(* the entries of the current group one day from the current token's date *)
AllNear == NearList(ie, CurGroup, CurToken)

(* C5: in the pass for a token e and a group, the single entry that holds e is   *)
(* accepted when there is exactly one; the single entry one day from e is        *)
(* accepted when no entry holds e and exactly one is a day away; in every other  *)
(* case the pass accepts nothing.                                                *)
C5_Policy ==
    [][InPass =>
          IF Len(AllExact) = 1 THEN InList(AllExact[1], src')
          ELSE IF Len(AllExact) = 0 /\ Len(AllNear) = 1 THEN InList(AllNear[1], src')
          ELSE src' = src]_vars

(* the episode numbers of a label's token list *)
EpisodeNumbers(ep) == {ep[n].v : n \in {m \in 1..Len(ep) : ep[m].k = "e"}}

(* the entry's label has no date and an episode number, and shares no episode    *)
(* number with the label                                                         *)
OtherEpisode(label) ==
    /\ DateTokens(Parsed(ie, label)) = {}
    /\ EpisodeNumbers(Parsed(ie, label)) # {}
    /\ EpisodeNumbers(Parsed(ie, episode)) # {}
    /\ EpisodeNumbers(Parsed(ie, label)) \cap EpisodeNumbers(Parsed(ie, episode)) = {}

(* C6: no entry of the result has a label without a date whose episode number    *)
(* differs from the episode number of the label.                                 *)
C6_Sound == \A n \in 1..Len(src) : ~OtherEpisode(src[n][2])

(* C7: no entry of the result carries the name of the current source, and every  *)
(* entry of the result is a (link, label) of a group whose source name it        *)
(* carries.                                                                      *)
C7_OtherSourcesOnly ==
    \A n \in 1..Len(src) :
        /\ src[n][3] # current_source
        /\ \E g \in 1..Len(links) :
               /\ links[g].source = src[n][3]
               /\ \E k \in 1..Len(links[g].links) :
                      links[g].links[k] = <<src[n][1], src[n][2]>>

(* C7: the reconciler has returned entries, and a group of the current source    *)
(* lists an entry that holds a token of the label                                *)
C7_Witness ==
    /\ pc = "done"
    /\ src # <<>>
    /\ \E g \in 1..Len(links) :
           /\ links[g].source = current_source
           /\ HoldingAny(g) # {}

(* C8: the reconciler raises for no page and no label. *)
C8_NeverRaises == pc # "raised"

QualityLabels == {HD, P1080}

(* C10: in a pass that completes, no entry whose label is only a quality marker  *)
(* is collected as a near match, and a label that is only a quality marker       *)
(* collects no near match.                                                       *)
C10_NoQualityNear ==
    [][(InPass /\ pc' = "loop") =>
          /\ \A n \in 1..Len(AllNear) : AllNear[n][2] \notin QualityLabels
          /\ episode \in QualityLabels => AllNear = <<>>]_vars

(***************************************************************************)
(* Calls of _parse_episode: GimyIE._parse_episode(string) and              *)
(* IdoltvIE._parse_episode(string), called twice on the same string.       *)
(***************************************************************************)

(* the most words a label is made of *)
MaxWords == 3

(* the concatenations of at most n words *)
RECURSIVE Texts(_, _)
Texts(words, n) ==
    IF n = 0 THEN {<<>>}
    ELSE LET shorter == Texts(words, n - 1)
         IN  shorter \cup {w \o t : w \in words, t \in shorter}

(* words of labels: spaces, digits, episode markers, part markers, a quality *)
(* marker, a date and a letter no pattern knows                              *)
Words ==
    {<<" ">>, <<"TAB">>, <<"4">>, <<"0">>, <<"DI">>, <<"JI">>, <<"e", "p">>, <<"H", "D">>,
     <<"x">>, <<"-">>, <<"SHANG">>, <<"2", "5", "0", "6", "2", "1">>}

(* the positions from which the prefixes of the findall pattern reach a digit *)
EpFindStarts(s) ==
    {i \in 1..Len(s) :
        /\ ~IsDigit(s[i])
        /\ \E q \in (i + 1)..Len(s) :
               /\ IsDigit(s[q])
               /\ \A m \in i..(q - 1) : ~IsDigit(s[m])
               /\ Prefixes(s, i, q)}

(* re.findall(...)[0] raises IndexError: the search pattern of a branch matched *)
(* the segment and the findall pattern of the branch finds nothing in it        *)
SegmentRaises(i, e) ==
    \/ EpSearch(e) /\ EpFindStarts(e) = {}
    \/ ~EpSearch(e) /\ BareSearch(e) /\ RunStarts(e) = {}

(* a call of _parse_episode(string) raises *)
ParseRaises(i, string) ==
    LET segs == Split(ReplaceParts(string))
    IN  \E n \in 1..Len(segs) : SegmentRaises(i, segs[n])

InitParse(texts) ==
    /\ ie \in IEs
    /\ text \in texts
    /\ out = <<>>
    /\ pc = "call"
    /\ links = <<>>
    /\ episode = <<>>
    /\ current_source = "A"
    /\ li = 1
    /\ ei = 1
    /\ src = <<>>
    /\ playlist = <<>>
    /\ ti = 1
    /\ yi = 1
    /\ entries = <<>>
    /\ webpage = <<>>
    /\ Idle

(* self._parse_episode(text) *)
Call ==
    /\ pc = "call"
    /\ IF ParseRaises(ie, text)
       THEN pc' = "raised" /\ out' = out
       ELSE pc' = "called" /\ out' = Append(out, _parse_episode(ie, text))
    /\ UNCHANGED <<ie, links, episode, current_source, li, ei, src, text, playlist, ti, yi, entries, webpage, session>>

(* self._parse_episode(text), once more *)
CallAgain ==
    /\ pc = "called"
    /\ IF ParseRaises(ie, text)
       THEN pc' = "raised" /\ out' = out
       ELSE pc' = "recalled" /\ out' = Append(out, _parse_episode(ie, text))
    /\ UNCHANGED <<ie, links, episode, current_source, li, ei, src, text, playlist, ti, yi, entries, webpage, session>>

NextParse == Call \/ CallAgain

SpecParse == InitParse(Texts(Words, MaxWords)) /\ [][NextParse]_vars

(***************************************************************************)
(* Properties of the parser.                                               *)
(***************************************************************************)
(* a call of the parser has returned *)
Returned == pc \in {"called", "recalled"}

(* the segments of the label, as the parser cuts them *)
Segments == Split(ReplaceParts(text))

(* C11: every list a call of _parse_episode returns holds at least one token. *)
C11_NonEmpty == Returned => \A n \in 1..Len(out) : Len(out[n]) >= 1

(* C11: the parser has returned a token for a label that is empty or only spaces *)
C11_Witness ==
    /\ pc = "called"
    /\ \A n \in 1..Len(text) : text[n] = " "
    /\ Len(out[1]) >= 1

(* the segment matches none of the date, episode number, range and quality patterns *)
Unmatched(e) ==
    /\ (IF ie = "gimy" THEN GimyDate(e) ELSE IdoltvDate(e)) = <<>>
    /\ ~EpSearch(e)
    /\ ~BareSearch(e)
    /\ ~RangeSearch(e)
    /\ ~ResSearch(ie, e)

(* C12: no call of _parse_episode raises, and the literal tokens of the list it   *)
(* returns are, in order, one token holding the text of each segment that matches *)
(* none of the patterns.                                                          *)
C12_NeverRaises ==
    /\ pc # "raised"
    /\ Returned =>
           LET none == SelectSeq(Segments, Unmatched)
               lits == SelectSeq(out[1], LAMBDA t : t.k = "n")
           IN  /\ Len(lits) = Len(none)
               /\ \A n \in 1..Len(lits) : lits[n].v = none[n]

(* C12: the parser has returned for a label with a segment that matches a pattern *)
(* and a segment that matches none                                                *)
C12_Witness ==
    /\ pc = "called"
    /\ \E a, b \in 1..Len(Segments) : Unmatched(Segments[a]) /\ ~Unmatched(Segments[b])
    /\ \E n \in 1..Len(out[1]) : out[1][n].k = "n"

Rank(order, k) == CHOOSE n \in 1..Len(order) : order[n] = k

(* the tokens of the list come in the order of the kinds *)
OrderedBy(order, ep) ==
    \A a, b \in 1..Len(ep) : a < b => Rank(order, ep[a].k) <= Rank(order, ep[b].k)

(* C15 as stated: the tokens come in the order date, number, resolution, literal. *)
C15_AsStated == Returned => OrderedBy(<<"d", "e", "r", "n">>, out[1])

(* C15, amended: the tokens come in the order date, number, literal, resolution. *)
C15_KindOrder == Returned => OrderedBy(<<"d", "e", "n", "r">>, out[1])

(* C15: the parser has returned a list that holds a literal and a resolution token, *)
(* for a label whose quality marker comes before its literal segment                *)
C15_Witness ==
    /\ pc = "called"
    /\ \E a, b \in 1..Len(Segments) : a < b /\ ResSearch(ie, Segments[a]) /\ Unmatched(Segments[b])
    /\ \E a, b \in 1..Len(out[1]) : out[1][a].k = "n" /\ out[1][b].k = "r"

(***************************************************************************)
(* Labels that name an episode number.                                     *)
(***************************************************************************)

(* \d{1,4}: the most digits of a bare number and of the two sides of a range *)
MaxDigits == 4

(* the episode numbers N of 1 to MaxDigits digits over the digits 0 and 4 *)
Numerals == {d \in Texts({<<"0">>, <<"4">>}, MaxDigits) \ {<<>>} : Canon(d) = d}

Forms == {"di", "ep", "episode", "paren", "bare"}

(* the label of the form around the digits *)
NumberLabel(form, digits) ==
    CASE form = "di" -> <<"DI">> \o digits \o <<"JI">>
      [] form = "ep" -> <<"e", "p">> \o digits
      [] form = "episode" -> <<"e", "p", "i", "s", "o", "d", "e">> \o digits
      [] form = "paren" -> <<"LP">> \o digits \o <<"RP">>
      [] form = "bare" -> digits

(* with or without one leading zero *)
LeadingZero == {<<>>, <<"0">>}

NumberLabels == {NumberLabel(f, z \o n) : f \in Forms, z \in LeadingZero, n \in Numerals}

SpecNumber == InitParse(NumberLabels) /\ [][NextParse]_vars

(* C14: the list returned for a label of one of the forms around the number N,   *)
(* with or without one leading zero, holds the number token of value N and empty *)
(* part tag.                                                                     *)
C14_SameNumber ==
    Returned =>
        \A f \in Forms, z \in LeadingZero, n \in Numerals :
            text = NumberLabel(f, z \o n) => TokIn(Token(Number(n), <<>>, "e"), out[1])

(* the token list holds a token of the kind *)
HasKind(ep, k) == \E n \in 1..Len(ep) : ep[n].k = k

(* C16: the label with a date and an episode number parses to a date token and a *)
(* number token, and once the reconciler has ended, for each of the two tokens   *)
(* and each group of another source, the one entry of the group that holds the   *)
(* token is in the list it returned.                                             *)
C16_EitherToken ==
    /\ HasKind(Parsed(ie, episode), "d")
    /\ HasKind(Parsed(ie, episode), "e")
    /\ pc # "loop" =>
           \A g \in OtherGroups :
               \A n \in 1..Len(Parsed(ie, episode)) :
                   Cardinality(Holding(g, Parsed(ie, episode)[n])) = 1
                   => \A k \in Holding(g, Parsed(ie, episode)[n]) : Returns(EntryOf(g, k))

(***************************************************************************)
(* Labels that are a range N-M or N+M.                                     *)
(***************************************************************************)

(* the sides N and M: 1 to MaxDigits digits over the digits 0 and 1 *)
Sides == Texts({<<"0">>, <<"1">>}, MaxDigits) \ {<<>>}

Signs == {"-", "+"}

RangeLabel(n, sign, m) == n \o <<sign>> \o m

RangeLabels == {RangeLabel(n, sign, m) : n \in Sides, sign \in Signs, m \in Sides}

SpecRange == InitParse(RangeLabels) /\ [][NextParse]_vars

(* the values of the number tokens of the range labels, computed once *)
RangeTable ==
    [x \in IEs \X RangeLabels |->
        LET ep == _parse_episode(x[1], x[2])
        IN  SelectSeq(ep, LAMBDA t : t.k = "e")[1].v] @@ <<>>

(* the numbers the sides stand for, computed once *)
SideValue == [d \in Sides |-> ToInt(d)] @@ <<>>

(* a number is less than another *)
Less(a, b) ==
    \/ ToInt(a[1]) < ToInt(b[1])
    \/ ToInt(a[1]) = ToInt(b[1]) /\ ToInt(a[2]) < ToInt(b[2])

(* the place of the sign in the label, and the sides N and M around it *)
SignAt == CHOOSE p \in 1..Len(text) : text[p] \in Signs

LeftSide == Slice(text, 1, SignAt - 1)

RightSide == Slice(text, SignAt + 1, Len(text))

(* the pairs of numbers (N, M) the sides stand for *)
NumberPairs == {<<SideValue[n], SideValue[m]>> : n \in Sides, m \in Sides}

(* the parser gives as many values as there are pairs (N, M), for each sign *)
RangeValuesDistinct ==
    \A i \in IEs, sign \in Signs :
        Cardinality({RangeTable[<<i, RangeLabel(n, sign, m)>>] : n \in Sides, m \in Sides})
            = Cardinality(NumberPairs)

(* C17: the list returned for a label N-M or N+M holds the number token of value *)
(* N.MMMM, M padded with zeros to four digits; distinct pairs (N, M) have        *)
(* distinct values, and the value is less than the value of the same N with a    *)
(* greater M.                                                                    *)
C17_RangeEncoding ==
    Returned =>
        /\ TokIn(Token(<<Canon(LeftSide), ZFill(Canon(RightSide))>>,
                       PartOf(ReplaceParts(text)), "e"), out[1])
        /\ RangeValuesDistinct
        /\ \A n2 \in Sides, m2 \in Sides :
               (SideValue[n2] = SideValue[LeftSide] /\ SideValue[RightSide] < SideValue[m2])
               => Less(out[1][1].v, RangeTable[<<ie, RangeLabel(n2, text[SignAt], m2)>>])

(* C17: the parser has returned for a range whose M is padded: fewer than four *)
(* digits and not zero                                                        *)
C17_Witness ==
    /\ pc = "called"
    /\ Len(Canon(RightSide)) < 4
    /\ SideValue[RightSide] > 0
    /\ \E k \in 1..Len(out[1]) : out[1][k].k = "e" /\ out[1][k].v[2] = ZFill(Canon(RightSide))

(***************************************************************************)
(* The part tag: labels made of the characters the tag is derived from.    *)
(***************************************************************************)
PartWords == {<<"4">>, <<"0">>, <<"1">>, <<"SHANG">>, <<"XIA">>, <<"-">>, <<"_">>,
              <<"JI">>, <<"RP">>, <<"YU", "GAO">>, <<"x">>, <<" ">>}

SpecPart == InitParse(Texts(PartWords, MaxWords)) /\ [][NextParse]_vars

(* the label without the JI or RP that may end it *)
Core(label) ==
    IF label # <<>> /\ label[Len(label)] \in {"JI", "RP"}
    THEN Slice(label, 1, Len(label) - 1) ELSE label

(* the label ends in -N or _N, JI or RP set aside *)
EndsInSuffix(label) ==
    LET c == Core(label)
    IN  /\ c # <<>>
        /\ IsDigit(c[Len(c)])
        /\ RunStart(c, Len(c)) > 1
        /\ c[RunStart(c, Len(c)) - 1] \in {"-", "_"}

(* the part of a label as the suffixes of the label itself give it: 1 for SHANG, *)
(* 2 for XIA, the number N of -N or _N, YU GAO, or nothing                       *)
LabelPart(label) ==
    LET c == Core(label)
    IN  IF c # <<>> /\ c[Len(c)] = "SHANG" THEN <<"1">>
        ELSE IF c # <<>> /\ c[Len(c)] = "XIA" THEN <<"2">>
        ELSE IF EndsInSuffix(label) THEN Canon(Slice(c, RunStart(c, Len(c)), Len(c)))
        ELSE IF \E i \in 1..Len(label) : HasAt(label, i, <<"YU", "GAO">>) THEN <<"YU", "GAO">>
        ELSE <<>>

(* a part tag stands for the part: digits are compared as numbers *)
SamePart(tag, p) ==
    IF tag # <<>> /\ \A i \in 1..Len(tag) : IsDigit(tag[i]) THEN Canon(tag) = p ELSE tag = p

(* C18: every token of the list returned for a label carries the part the label's *)
(* own suffix gives (1 for SHANG, 2 for XIA, N for -N or _N, YU GAO, else empty), *)
(* and two tokens of different part tags are not equal.                           *)
C18_PartTag ==
    Returned =>
        /\ \A k \in 1..Len(out[1]) : SamePart(out[1][k].part, LabelPart(text))
        /\ \A k \in 1..Len(out[1]), p \in {<<>>, <<"1">>, <<"2">>} :
               p # out[1][k].part => ~TokEq(out[1][k], Token(out[1][k].v, p, out[1][k].k))

(* C18 for the labels in which no digit follows SHANG or XIA *)
C18_SuffixOnly ==
    (\A i \in 1..(Len(text) - 1) : text[i] \in {"SHANG", "XIA"} => ~IsDigit(text[i + 1]))
    => C18_PartTag

(* the maximal runs of characters that are not whitespace *)
RECURSIVE Runs(_)
Runs(s) ==
    IF \A i \in 1..Len(s) : ~IsSpace(s[i]) THEN (IF s = <<>> THEN <<>> ELSE <<s>>)
    ELSE LET p == Min({i \in 1..Len(s) : IsSpace(s[i])})
         IN  (IF p = 1 THEN <<>> ELSE <<Slice(s, 1, p - 1)>>) \o Runs(Slice(s, p + 1, Len(s)))

(* C19: the list returned for a label that holds a character other than whitespace *)
(* is the sorted list of the tokens of its maximal runs of non-whitespace          *)
(* characters, whatever the whitespace between and around them.                    *)
C19_Segments ==
    (Returned /\ Runs(ReplaceParts(text)) # <<>>)
    => out[1] = SortByKind(AllSegments(ie, Runs(ReplaceParts(text)), PartOf(ReplaceParts(text))))

(* C19 for the labels whose only whitespace is single spaces between two segments *)
C19_SingleSpaces ==
    (Split(ReplaceParts(text)) = Runs(ReplaceParts(text))) => C19_Segments

(***************************************************************************)
(* The playlist of a detail page: create_playlist(links, regex) of         *)
(* GimyDetailIE._real_extract and the loop "generate playlist" of          *)
(* IdoltvVodIE._real_extract.  One step is one pass of "for y in           *)
(* x['links']": the entry of y is appended, and y's duplicates are removed *)
(* from every later tab.                                                   *)
(***************************************************************************)
TabSources == {"A", "bilibili"}

(* the pages of at most n links under tabs of these sources *)
RECURSIVE PlaylistPages(_, _)
PlaylistPages(labels, n) ==
    {<<>>} \cup
    UNION {LET rest == PlaylistPages(labels, n - k)
           IN  {<<[source |-> x[1], labels |-> x[2]]>> \o x[3] :
                   x \in TabSources \X LabelLists(labels, k) \X rest} : k \in 1..n}

(* int(''.join(re.findall(regex, y[0])[0])): the two numbers of the href in a row *)
HrefNumber(href) == Number(<<Digits[href[1] + 1], Digits[href[2] + 1]>>)

(* entry = (y[0], float(epsd[0][0]) if epsd[0][2] is 'd' or 'e' else int(...)) *)
EntryOfLink(i, y) ==
    LET first == Parsed(i, y[2])[1]
    IN  <<y[1], IF first.k = "d" THEN Number(first.v)
                ELSE IF first.k = "e" THEN first.v
                ELSE HrefNumber(y[1])>>

(* z: the links b of the tab with e in self._parse_episode(b[1]) *)
ExactLinks(i, ls, e) == SelectSeq(ls, LAMBDA b : TokIn(e, Parsed(i, b[2])))

(* d: the links b of the tab one day from the date token e *)
NearLinks(i, ls, e) ==
    SelectSeq(ls, LAMBDA b : e.k = "d" /\ OneDayApart(e.v, DateFor(Parsed(i, b[2]), e)))

(* a strptime of the pass over the tab raises ValueError *)
LinkRaises(i, ls, e) ==
    /\ e.k = "d"
    /\ \E k \in 1..Len(ls) :
           \/ ~StrptimeOk(e.v)
           \/ ~StrptimeOk(DateFor(Parsed(i, ls[k][2]), e))

(* links[j]['links'].remove(b) *)
Remove(ls, b) ==
    LET p == Min({k \in 1..Len(ls) : ls[k] = b})
    IN  Slice(ls, 1, p - 1) \o Slice(ls, p + 1, Len(ls))

(* if len(z) == 1: remove z[0] / elif len(z) == 0 and len(d) == 1: remove d[0] *)
RemoveFor(i, ls, e) ==
    LET z == ExactLinks(i, ls, e)
        d == NearLinks(i, ls, e)
    IN  IF Len(z) = 1 THEN Remove(ls, z[1])
        ELSE IF Len(z) = 0 /\ Len(d) = 1 THEN Remove(ls, d[1])
        ELSE ls

(* for e in epsd, from the n-th token on: the links left in the tab *)
RECURSIVE RemoveAll(_, _, _, _)
RemoveAll(i, ls, epsd, n) ==
    IF n > Len(epsd) THEN ls
    ELSE RemoveAll(i, RemoveFor(i, ls, epsd[n]), epsd, n + 1)

(* for e in epsd, from the n-th token on: a pass raises *)
RECURSIVE RaisesAll(_, _, _, _)
RaisesAll(i, ls, epsd, n) ==
    /\ n <= Len(epsd)
    /\ \/ LinkRaises(i, ls, epsd[n])
       \/ RaisesAll(i, RemoveFor(i, ls, epsd[n]), epsd, n + 1)

(* the tab is handed to IdoltvIE: if x['source'] == 'bilibili', in idoltv.py only *)
Delegated(i, tab) == i = "idoltv" /\ tab.source = "bilibili"

(* a loop that walks every other tab *)
OtherTabs(i, ls, g) == {j \in 1..Len(ls) : j # g /\ ~Delegated(i, ls[j])}

(* for j, a in enumerate(links): if j > i (and a['source'] != 'bilibili') *)
LaterTabs(i, ls, g) == {j \in (g + 1)..Len(ls) : ~Delegated(i, ls[j])}

(* the tabs after the duplicates of the tokens epsd are removed from the later ones *)
Deduplicated(i, ls, g, epsd) ==
    [j \in 1..Len(ls) |->
        IF j \in LaterTabs(i, ls, g)
        THEN [source |-> ls[j].source, links |-> RemoveAll(i, ls[j].links, epsd, 1)]
        ELSE ls[j]]

(* sorted(playlist, key=lambda x: x[1]): stable *)
RECURSIVE SortedByValue(_)
SortedByValue(pl) ==
    IF pl = <<>> THEN <<>>
    ELSE LET rest == SortedByValue(Slice(pl, 1, Len(pl) - 1))
             x == pl[Len(pl)]
         IN  SelectSeq(rest, LAMBDA p : ~Less(x[2], p[2])) \o <<x>>
             \o SelectSeq(rest, LAMBDA p : Less(x[2], p[2]))

InitPlaylist ==
    /\ ie \in IEs
    /\ links \in {WithHrefs(p) : p \in PlaylistPages(PlaylistLabels, MaxLinks)}
    /\ webpage = links
    /\ playlist = <<>>
    /\ entries = <<>>
    /\ ti = 1
    /\ yi = 1
    /\ pc = "playlist"
    /\ episode = <<>>
    /\ current_source = "A"
    /\ li = 1
    /\ ei = 1
    /\ src = <<>>
    /\ text = <<>>
    /\ out = <<>>
    /\ Idle

(* the bilibili tab of an idoltv page: its links are extracted by IdoltvIE *)
Delegate ==
    /\ pc = "playlist"
    /\ ti <= Len(links)
    /\ Delegated(ie, links[ti])
    /\ entries' = entries \o [k \in 1..Len(links[ti].links) |-> <<"bilibili", links[ti].links[k][1]>>]
    /\ ti' = ti + 1
    /\ UNCHANGED <<ie, links, episode, current_source, pc, li, ei, src, text, out, playlist, yi, webpage, session>>

(* one pass of "for y in x['links']" *)
Entry ==
    /\ pc = "playlist"
    /\ ti <= Len(links)
    /\ ~Delegated(ie, links[ti])
    /\ yi <= Len(links[ti].links)
    /\ LET y == links[ti].links[yi]
           epsd == Parsed(ie, y[2])
       IN  /\ playlist' = IF InList(EntryOfLink(ie, y), playlist) THEN playlist
                          ELSE Append(playlist, EntryOfLink(ie, y))
           /\ IF \E j \in LaterTabs(ie, links, ti) : RaisesAll(ie, links[j].links, epsd, 1)
              THEN pc' = "raised" /\ UNCHANGED <<links, yi>>
              ELSE /\ links' = Deduplicated(ie, links, ti, epsd)
                   /\ yi' = yi + 1
                   /\ pc' = pc
    /\ UNCHANGED <<ie, episode, current_source, li, ei, src, text, out, ti, entries, webpage, session>>

(* the links of the tab are exhausted: the next x of "for i, x in enumerate(links)" *)
NextTab ==
    /\ pc = "playlist"
    /\ ti <= Len(links)
    /\ ~Delegated(ie, links[ti])
    /\ yi > Len(links[ti].links)
    /\ ti' = ti + 1
    /\ yi' = 1
    /\ UNCHANGED <<ie, links, episode, current_source, pc, li, ei, src, text, out, playlist, entries, webpage, session>>

(* entries = [url_result(x[0]) for x in sorted(playlist, key=lambda x: x[1])] *)
ListEntries ==
    /\ pc = "playlist"
    /\ ti > Len(links)
    /\ entries' = entries \o [k \in 1..Len(playlist) |-> <<"page", SortedByValue(playlist)[k][1]>>]
    /\ pc' = "listed"
    /\ UNCHANGED <<ie, links, episode, current_source, li, ei, src, text, out, playlist, ti, yi, webpage, session>>

NextPlaylist == Delegate \/ Entry \/ NextTab \/ ListEntries

SpecPlaylist == InitPlaylist /\ [][NextPlaylist]_vars

(* the href is among the entries of the result *)
Listed(href) == \E k \in 1..Len(entries) : entries[k][2] = href

(* the links of the tab g of the page whose label holds the token *)
Sharing(g, t) ==
    {k \in 1..Len(webpage[g].links) : TokIn(t, Parsed(ie, webpage[g].links[k][2]))}

(* the label of the k-th link of tab g parses to one token, a date or a number *)
SingleToken(g, k) ==
    LET ep == Parsed(ie, webpage[g].links[k][2])
    IN  Len(ep) = 1 /\ ep[1].k \in {"d", "e"}

(* tabs g < h list one episode once each: links a and b whose labels parse to the *)
(* same single token, which no other link of the page shares                      *)
ListedTwice(g, a, h, b) ==
    /\ g < h
    /\ SingleToken(g, a)
    /\ SingleToken(h, b)
    /\ LET t == Parsed(ie, webpage[g].links[a][2])[1]
       IN  /\ TokEq(t, Parsed(ie, webpage[h].links[b][2])[1])
           /\ \A j \in 1..Len(webpage) :
                  Sharing(j, t) = (IF j = g THEN {a} ELSE IF j = h THEN {b} ELSE {})

(* C20: once the loop over the tabs has ended, for an episode listed once under *)
(* each of two tabs by labels of the same single date or number token that no   *)
(* other link shares, the entries of the result hold the link of the earlier    *)
(* tab and not the link of the later tab.                                       *)
C20_OneEntry ==
    (pc # "playlist") =>
        \A g \in 1..Len(webpage), h \in 1..Len(webpage) :
            \A a \in 1..Len(webpage[g].links), b \in 1..Len(webpage[h].links) :
                ListedTwice(g, a, h, b) =>
                    /\ pc = "listed"
                    /\ Listed(webpage[g].links[a][1])
                    /\ ~Listed(webpage[h].links[b][1])

(* C20 for the pages without a dated label and without a tab handed to IdoltvIE *)
C20_NumbersOnly ==
    (\A g \in 1..Len(webpage) :
        /\ ~Delegated(ie, webpage[g])
        /\ \A k \in 1..Len(webpage[g].links) :
               ~HasKind(Parsed(ie, webpage[g].links[k][2]), "d"))
    => C20_OneEntry

(* C23: the list of the reconciler holds no entry (link, label, source) twice. *)
C23_NoDuplicates ==
    \A a \in 1..Len(src), b \in 1..Len(src) : a # b => src[a] # src[b]

(***************************************************************************)
(* Labels that end in a part marker: SHANG, XIA or -N.                     *)
(***************************************************************************)
Markers == {<<"SHANG">>, <<"XIA">>, <<"-", "2">>}

MarkedLabels == {l \o mk : l \in Texts(Words, MaxWords), mk \in Markers}

SpecMarker == InitParse(MarkedLabels) /\ [][NextParse]_vars

(* the marker that ends the label, and the label before it *)
MarkerOf(label) == CHOOSE mk \in Markers : Slice(label, Len(label) - Len(mk) + 1, Len(label)) = mk

Unmarked(label) == Slice(label, 1, Len(label) - Len(MarkerOf(label)))

(* the part a marker stands for *)
MarkerPart(mk) == IF mk = <<"SHANG">> THEN <<"1">> ELSE <<"2">>

(* the tokens with their part tag set to the part *)
WithPart(ep, part) == [k \in 1..Len(ep) |-> Token(ep[k].v, part, ep[k].k)]

(* C24: for a label L without part tag followed by a part marker, the list returned *)
(* is the list of L with the part tag of the marker: same kinds, same values.       *)
C24_OnlyPart ==
    (Returned /\ PartOf(ReplaceParts(Unmarked(text))) = <<>> /\ ~ParseRaises(ie, Unmarked(text)))
    => out[1] = WithPart(_parse_episode(ie, Unmarked(text)), MarkerPart(MarkerOf(text)))

(* the last segment of the label *)
LastSegment(label) == Split(ReplaceParts(label))[Len(Split(ReplaceParts(label)))]

(* C24 for the labels L whose last segment names its episode: DI N JI, ep N, (N) *)
C24_AfterEpisode ==
    EpSearch(LastSegment(Unmarked(text))) => C24_OnlyPart

(* the other copy of the parser *)
OtherIE(i) == IF i = "gimy" THEN "idoltv" ELSE "gimy"

(* C25: the list returned by one copy of the parser is the list the other copy *)
(* returns for the same label.                                                 *)
C25_SameTokens ==
    Returned => out[1] = _parse_episode(OtherIE(ie), text)

(***************************************************************************)
(* Pages whose tabs may list one href: the k-th link of every tab is the   *)
(* same href, or every link has an href of its own.                        *)
(***************************************************************************)
TabLabels == {EP4, D250629, D250630, D250632}

(* the k-th link of every tab has the href (1, k) *)
WithSharedHrefs(page) ==
    [g \in 1..Len(page) |->
        [source |-> page[g].source,
         links |-> [k \in 1..Len(page[g].labels) |-> <<<<1, k>>, page[g].labels[k]>>]]]

InitTabs ==
    /\ ie \in IEs
    /\ links \in {WithHrefs(p) : p \in PlaylistPages(TabLabels, MaxLinks)}
                 \cup {WithSharedHrefs(p) : p \in PlaylistPages(TabLabels, MaxLinks)}
    /\ webpage = links
    /\ playlist = <<>>
    /\ entries = <<>>
    /\ ti = 1
    /\ yi = 1
    /\ pc = "playlist"
    /\ episode = <<>>
    /\ current_source = "A"
    /\ li = 1
    /\ ei = 1
    /\ src = <<>>
    /\ text = <<>>
    /\ out = <<>>
    /\ Idle

SpecTabs == InitTabs /\ [][NextPlaylist]_vars

(* the first tab is as the page lists it, its links are among the entries once   *)
(* the playlist is listed, and the playlist holds no (link, sort key) pair twice *)
FirstTabKept ==
    /\ webpage # <<>> => links[1] = webpage[1]
    /\ (pc = "listed" /\ webpage # <<>>)
       => \A k \in 1..Len(webpage[1].links) : Listed(webpage[1].links[k][1])
    /\ \A a \in 1..Len(playlist), b \in 1..Len(playlist) : a # b => playlist[a] # playlist[b]

(* a step changes the links of no tab up to the one of the entry at hand *)
PrunesLater ==
    \A j \in 1..Len(links) : links'[j] # links[j] => (j > ti /\ pc' = "playlist")

MetTwice ==
    /\ pc = "listed"
    /\ ie = "gimy"
    /\ \E g \in 2..Len(links) : \E k \in 1..Len(links[g].links) :
           \E a \in 1..Len(links[1].links) :
               EntryOfLink(ie, links[g].links[k]) = EntryOfLink(ie, links[1].links[a])

(***************************************************************************)
(* PiramideTVIE: _real_extract, _extract_video and the generator _entries. *)
(* The site gives every video its next_video (None when it has none) and   *)
(* fails the download of the data of some videos.  One step of the walk is *)
(* one pass of "while True" in _entries, up to its yield and its test.     *)
(***************************************************************************)
MaxVideos == 3

Videos == 1..MaxVideos

None == 0

Sites == [next_video : [Videos -> Videos \cup {None}], failed : SUBSET Videos]

InitWalk ==
    /\ site \in Sites
    /\ url \in Videos
    /\ params \in [noplaylist : BOOLEAN]
    /\ video_id = url
    /\ visited = {}
    /\ requests = <<>>
    /\ entries = <<>>
    /\ outcome = <<>>
    /\ pc = "extract"
    /\ url_prefix = <<>>
    /\ result_end = 0
    /\ formats = <<>>
    /\ ie = "piramidetv"
    /\ links = <<>>
    /\ webpage = <<>>
    /\ episode = <<>>
    /\ current_source = "A"
    /\ li = 1
    /\ ei = 1
    /\ src = <<>>
    /\ text = <<>>
    /\ out = <<>>
    /\ playlist = <<>>
    /\ ti = 1
    /\ yi = 1

(* a walk that forgets the videos it has visited *)
Forget(seen, v) == seen

(* visited.add(video_id) *)
Visit(seen, v) == seen \cup {v}

(* next_video of _extract_video(video_id, fatal=False): None when the download failed *)
NextVideo(v) == IF v \in site.failed THEN None ELSE site.next_video[v]

(* the entry _extract_video returns: the bare id when the download failed *)
InfoOf(v) == IF v \in site.failed THEN <<"id", v>> ELSE <<"video", v>>

(* _real_extract: next_video, info = self._extract_video(video_id), fatal; then *)
(* the playlist over _entries(info, next_video), or info alone                 *)
Extract ==
    /\ pc = "extract"
    /\ requests' = Append(requests, video_id)
    /\ IF video_id \in site.failed
       THEN pc' = "raised" /\ outcome' = <<"ExtractorError">> /\ video_id' = video_id
       ELSE IF site.next_video[video_id] # None /\ ~params.noplaylist
            THEN /\ pc' = "entries"
                 /\ outcome' = <<"playlist">>
                 /\ video_id' = site.next_video[video_id]
            ELSE pc' = "done" /\ outcome' = <<"video", video_id>> /\ video_id' = video_id
    /\ UNCHANGED <<ie, links, episode, current_source, li, ei, src, text, out, playlist, ti, yi,
                   entries, webpage, site, params, url, url_prefix, visited, result_end, formats>>

(* _entries up to its first yield: visited.add(video_info['id']); yield video_info *)
First ==
    /\ pc = "entries"
    /\ visited' = Visit(visited, url)
    /\ entries' = Append(entries, InfoOf(url))
    /\ pc' = "walk"
    /\ UNCHANGED <<ie, links, episode, current_source, li, ei, src, text, out, playlist, ti, yi,
                   webpage, site, params, url, requests, outcome, url_prefix, video_id,
                   result_end, formats>>

(* one pass of "while True": add, extract, yield, then break or go on to next_video *)
Walk ==
    /\ pc = "walk"
    /\ Len(entries) <= MaxVideos
    /\ visited' = Visit(visited, video_id)
    /\ requests' = Append(requests, video_id)
    /\ entries' = Append(entries, InfoOf(video_id))
    /\ IF NextVideo(video_id) = None \/ NextVideo(video_id) \in visited'
       THEN pc' = "stopped" /\ video_id' = video_id
       ELSE pc' = pc /\ video_id' = NextVideo(video_id)
    /\ UNCHANGED <<ie, links, episode, current_source, li, ei, src, text, out, playlist, ti, yi,
                   webpage, site, params, url, outcome, url_prefix, result_end, formats>>

NextWalk == Extract \/ First \/ Walk

SpecWalk == InitWalk /\ [][NextWalk]_vars

(* the consumer of the playlist draws from the generator until it is exhausted *)
SpecWalkFair == SpecWalk /\ WF_vars(NextWalk)

(* the walk is over: one video, an error, or the generator has stopped *)
WalkOver == pc \in {"done", "raised", "stopped"}

(* a pass of the loop ends the walk exactly when the download failed or   *)
(* next_video is absent or visited; the entry of a failed download is the *)
(* bare id                                                                *)
StopsAtFirst ==
    (pc = "walk" /\ pc' # "walk")
    => /\ pc' = "stopped"
       /\ \/ video_id \in site.failed
          \/ site.next_video[video_id] = None
          \/ site.next_video[video_id] \in visited \cup {video_id}
       /\ entries' = Append(entries, IF video_id \in site.failed THEN <<"id", video_id>>
                                     ELSE <<"video", video_id>>)

GoesOn ==
    (pc = "walk" /\ pc' = "walk")
    => /\ video_id \notin site.failed
       /\ site.next_video[video_id] \notin visited \cup {video_id, None}
       /\ video_id' = site.next_video[video_id]

(* C27: the walk always comes to its end; a pass of its loop stops it when the *)
(* video's next_video is absent or visited or its download failed (the entry   *)
(* is then the bare id), and goes on to next_video otherwise.                  *)
C27_WalkStops == <>WalkOver /\ [][StopsAtFirst /\ GoesOn]_vars

(* C27: the generator has stopped at a video whose next_video closes a cycle of *)
(* three videos                                                                 *)
C27_Witness ==
    /\ pc = "stopped"
    /\ Len(entries) = 3
    /\ video_id \notin site.failed
    /\ site.next_video[video_id] = url

(* C28: the entries of the playlist have pairwise distinct ids and no video's *)
(* data is downloaded twice.                                                   *)
C28_NoRepeat ==
    /\ \A a \in 1..Len(entries), b \in 1..Len(entries) : a # b => entries[a][2] # entries[b][2]
    /\ \A a \in 1..Len(requests), b \in 1..Len(requests) : a # b => requests[a] # requests[b]

(* C28 for the walks from a video whose next_video is another video *)
C28_NotItself ==
    (site.next_video[url] # url) => C28_NoRepeat

(***************************************************************************)
(* GimyDetailIE._real_extract: the detail page of gimy.la, then of gimy.cc *)
(* when gimy.la reports a failure, then create_playlist on the links of    *)
(* the page that was kept.                                                 *)
(***************************************************************************)
MaxDetailLinks == 2

DetailLabels == {EP4, D250630, D250632}

(* the link lists of a detail page *)
DetailPages ==
    {p \in PlaylistPages(DetailLabels, MaxDetailLinks) : \A g \in 1..Len(p) : p[g].source = "A"}

(* hrefs of gimy.cc are told from those of gimy.la by the number of their tab *)
CcTabs == 5

WithSiteHrefs(page, first) ==
    [g \in 1..Len(page) |->
        [source |-> page[g].source,
         links |-> [k \in 1..Len(page[g].labels) |-> <<<<g + first, k>>, page[g].labels[k]>>]]]

(* what a download of the gimy.la page gives: a page with links, a page with the *)
(* failure marker, or an error of the download                                   *)
LaPages ==
    {[kind |-> "page", links |-> WithSiteHrefs(p, 0)] : p \in DetailPages}
    \cup {[kind |-> "failure", links |-> <<>>], [kind |-> "error", links |-> <<>>]}

(* the same for gimy.cc, whose marker is aks-404-page *)
CcPages ==
    {[kind |-> "page", links |-> WithSiteHrefs(p, CcTabs)] : p \in DetailPages}
    \cup {[kind |-> "404", links |-> <<>>], [kind |-> "error", links |-> <<>>]}

InitDetail ==
    /\ site \in [la : LaPages, cc : CcPages]
    /\ pc = "la"
    /\ ie = "gimy"
    /\ requests = <<>>
    /\ outcome = <<>>
    /\ url_prefix = <<>>
    /\ links = <<>>
    /\ webpage = <<>>
    /\ playlist = <<>>
    /\ entries = <<>>
    /\ ti = 1
    /\ yi = 1
    /\ params = <<>>
    /\ url = <<>>
    /\ visited = {}
    /\ video_id = <<>>
    /\ result_end = 0
    /\ formats = <<>>
    /\ episode = <<>>
    /\ current_source = "A"
    /\ li = 1
    /\ ei = 1
    /\ src = <<>>
    /\ text = <<>>
    /\ out = <<>>

(* an extractor that falls back whatever the page holds *)
AnyPage(page) == TRUE

(* if the failure marker is in webpage *)
HasFailed(page) == page.kind = "failure"

(* webpage = self._download_webpage('https://gimy.la/detail/...') and its test *)
RequestLa ==
    /\ pc = "la"
    /\ requests' = Append(requests, "gimy.la")
    /\ IF site.la.kind = "error"
       THEN pc' = "raised" /\ outcome' = <<"DownloadError">> /\ UNCHANGED <<links, webpage, url_prefix>>
       ELSE IF HasFailed(site.la)
            THEN pc' = "cc" /\ UNCHANGED <<links, webpage, url_prefix, outcome>>
            ELSE /\ links' = site.la.links
                 /\ webpage' = site.la.links
                 /\ url_prefix' = <<"">>
                 /\ pc' = "playlist"
                 /\ outcome' = outcome
    /\ UNCHANGED <<ie, episode, current_source, li, ei, src, text, out, playlist, ti, yi, entries,
                   site, params, url, visited, video_id, result_end, formats>>

(* webpage = self._download_webpage('https://gimy.cc/detail/...') and its test *)
RequestCc ==
    /\ pc = "cc"
    /\ requests' = Append(requests, "gimy.cc")
    /\ IF site.cc.kind = "error"
       THEN pc' = "raised" /\ outcome' = <<"DownloadError">> /\ UNCHANGED <<links, webpage, url_prefix>>
       ELSE IF site.cc.kind = "404"
            THEN pc' = "raised" /\ outcome' = <<"ExtractorError">> /\ UNCHANGED <<links, webpage, url_prefix>>
            ELSE /\ links' = site.cc.links
                 /\ webpage' = site.cc.links
                 /\ url_prefix' = <<"https://gimy.cc">>
                 /\ pc' = "playlist"
                 /\ outcome' = outcome
    /\ UNCHANGED <<ie, episode, current_source, li, ei, src, text, out, playlist, ti, yi, entries,
                   site, params, url, visited, video_id, result_end, formats>>

NextDetail == RequestLa \/ RequestCc \/ Entry \/ NextTab \/ ListEntries

SpecDetail == InitDetail /\ [][NextDetail]_vars

(* the hrefs of the entries are hrefs of gimy.cc *)
EntriesOfCc == \A k \in 1..Len(entries) : entries[k][2][1] > CcTabs

(* the hrefs of the entries are hrefs of gimy.la *)
EntriesOfLa == \A k \in 1..Len(entries) : entries[k][2][1] <= CcTabs

(* C21: gimy.la is requested first; gimy.cc is requested only after a gimy.la page *)
(* with the failure marker; the not-found error is raised only when gimy.cc gives  *)
(* its 404 marker too; and the playlist is built from the links of one site, with  *)
(* no prefix for gimy.la and the prefix https://gimy.cc for gimy.cc.               *)
C21_FallbackChain ==
    /\ pc # "la" => (requests # <<>> /\ requests[1] = "gimy.la")
    /\ \A k \in 2..Len(requests) : k = 2 /\ requests[k] = "gimy.cc" /\ site.la.kind = "failure"
    /\ outcome = <<"ExtractorError">> => (site.la.kind = "failure" /\ site.cc.kind = "404")
    /\ pc \in {"playlist", "listed"} =>
           \/ /\ requests = <<"gimy.la">>
              /\ webpage = site.la.links
              /\ url_prefix = <<"">>
              /\ EntriesOfLa
           \/ /\ requests = <<"gimy.la", "gimy.cc">>
              /\ webpage = site.cc.links
              /\ url_prefix = <<"https://gimy.cc">>
              /\ EntriesOfCc

(* C21: the playlist of the gimy.cc page is listed, after the failure of gimy.la *)
C21_Witness ==
    /\ pc = "listed"
    /\ site.la.kind = "failure"
    /\ url_prefix = <<"https://gimy.cc">>
    /\ entries # <<>>

(***************************************************************************)
(* A downloader that runs the extractors one after the other on its shared *)
(* params: each call begins, downloads its first page, and returns or      *)
(* raises.                                                                 *)
(***************************************************************************)
MaxCalls == 3

Extractors ==
    {"gimy", "gimyla", "gimydetail", "gimysearch", "gimysearchurl", "idoltv", "idoltvvod", "idoltvsearch"}

InitSession ==
    /\ params \in [nocheckcertificate : BOOLEAN]
    /\ pc = "idle"
    /\ ie = "gimy"
    /\ requests = <<>>
    /\ outcome = <<>>
    /\ site = <<>>
    /\ url = <<>>
    /\ url_prefix = <<>>
    /\ visited = {}
    /\ video_id = <<>>
    /\ result_end = 0
    /\ formats = <<>>
    /\ links = <<>>
    /\ webpage = <<>>
    /\ playlist = <<>>
    /\ entries = <<>>
    /\ ti = 1
    /\ yi = 1
    /\ episode = <<>>
    /\ current_source = "A"
    /\ li = 1
    /\ ei = 1
    /\ src = <<>>
    /\ text = <<>>
    /\ out = <<>>

(* an extractor that leaves the params alone *)
Untouched(e, p) == p

(* the first statement of _real_extract of GimyIE and of GimyLaIE; the other *)
(* extractors have no assignment to the params                               *)
FirstStatement(e, p) ==
    IF e \in {"gimy", "gimyla"} THEN [p EXCEPT !.nocheckcertificate = TRUE] ELSE p

(* the downloader calls _real_extract of an extractor *)
Begin ==
    /\ pc = "idle"
    /\ Len(outcome) < MaxCalls
    /\ \E e \in Extractors :
          /\ ie' = e
          /\ params' = FirstStatement(e, params)
    /\ pc' = "begun"
    /\ UNCHANGED <<links, episode, current_source, li, ei, src, text, out, playlist, ti, yi, entries,
                   webpage, site, url, requests, outcome, url_prefix, visited, video_id, result_end, formats>>

(* the first self._download_webpage of the call, made with the params of that moment; *)
(* the download raises, or gives a page                                               *)
Download ==
    /\ pc = "begun"
    /\ requests' = Append(requests, [ie |-> ie, nocheckcertificate |-> params.nocheckcertificate])
    /\ \/ pc' = "downloaded" /\ outcome' = outcome
       \/ pc' = "idle" /\ outcome' = Append(outcome, <<ie, "raised">>)
    /\ UNCHANGED <<ie, links, episode, current_source, li, ei, src, text, out, playlist, ti, yi, entries,
                   webpage, site, params, url, url_prefix, visited, video_id, result_end, formats>>

(* the rest of the call: a marker of the page raises ExtractorError, or the call returns *)
Finish ==
    /\ pc = "downloaded"
    /\ \E end \in {"returned", "raised"} : outcome' = Append(outcome, <<ie, end>>)
    /\ pc' = "idle"
    /\ UNCHANGED <<ie, links, episode, current_source, li, ei, src, text, out, playlist, ti, yi, entries,
                   webpage, site, params, url, requests, url_prefix, visited, video_id, result_end, formats>>

NextSession == Begin \/ Download \/ Finish

SpecSession == InitSession /\ [][NextSession]_vars

(* a call of GimyIE or GimyLaIE has begun *)
GimyBegan ==
    \/ pc # "idle" /\ ie \in {"gimy", "gimyla"}
    \/ \E k \in 1..Len(outcome) : outcome[k][1] \in {"gimy", "gimyla"}

(* the step is taken by an extractor other than GimyIE and GimyLaIE *)
OthersLeave == ie' \notin {"gimy", "gimyla"} => params' = params

(* no step takes the parameter back *)
NeverRestored == params.nocheckcertificate => params'.nocheckcertificate

(* C22: GimyIE and GimyLaIE set nocheckcertificate to True before their first page *)
(* download and never restore it, so it is True after the call, returned or raised, *)
(* and during every later extraction; the other extractors do not change it.        *)
C22_Certificate ==
    /\ [](GimyBegan => params.nocheckcertificate)
    /\ [](\A k \in 1..Len(requests) :
             requests[k].ie \in {"gimy", "gimyla"} => requests[k].nocheckcertificate)
    /\ [][OthersLeave /\ NeverRestored]_vars

(* C22: a session that began without the parameter: IdoltvIE downloads without it, *)
(* a GimyLaIE call raises, and the later IdoltvIE call downloads with it             *)
C22_Witness ==
    /\ Len(outcome) = 2
    /\ outcome[1] = <<"idoltv", "returned">>
    /\ outcome[2] = <<"gimyla", "raised">>
    /\ Len(requests) = 3
    /\ requests[1] = [ie |-> "idoltv", nocheckcertificate |-> FALSE]
    /\ requests[3] = [ie |-> "idoltv", nocheckcertificate |-> TRUE]

(***************************************************************************)
(* IdoltvSearchIE._real_extract: the first result page, the number of      *)
(* results to return, the further pages, and the entries.                  *)
(***************************************************************************)
MaxTotal == 4

MaxPage == 2

(* the site: the total it reports, the items of a full page, and what it answers *)
(* for a page after the last one                                                 *)
SearchSites == [match_total : 0..MaxTotal, page_size : 0..MaxPage, beyond : {"empty", "404"}]

(* idoltvsearch:, idoltvsearchN:, idoltvsearchall: and the http URL of the search *)
SearchPrefixes ==
    {[kind |-> k, n |-> 0] : k \in {"empty", "all", "http"}}
    \cup {[kind |-> "n", n |-> k] : k \in 1..(MaxTotal + 1)}

(* what parse_playlist_items yields: integers, and slices of which only stop is read *)
(* (stop None is 0)                                                                  *)
ItemSpecs ==
    {[type |-> "int", v |-> k] : k \in {-1, 2, MaxTotal + 1}}
    \cup {[type |-> "slice", v |-> k] : k \in {None, 3}}

MaxItems == 2

PlaylistItems == UNION {[1..n -> ItemSpecs] : n \in 0..MaxItems}

SearchParams == [playlistend : {None} \cup {1, 3}, playlist_items : PlaylistItems]

InitSearch ==
    /\ site \in SearchSites
    /\ url \in SearchPrefixes
    /\ params \in SearchParams
    /\ pc = "search"
    /\ ie = "idoltvsearch"
    /\ requests = <<>>
    /\ playlist = <<>>
    /\ entries = <<>>
    /\ result_end = 0
    /\ outcome = <<>>
    /\ url_prefix = <<>>
    /\ visited = {}
    /\ video_id = <<>>
    /\ formats = <<>>
    /\ links = <<>>
    /\ webpage = <<>>
    /\ ti = 1
    /\ yi = 1
    /\ episode = <<>>
    /\ current_source = "A"
    /\ li = 1
    /\ ei = 1
    /\ src = <<>>
    /\ text = <<>>
    /\ out = <<>>

Smaller(a, b) == IF a < b THEN a ELSE b

Larger(a, b) == IF a > b THEN a ELSE b

(* math.ceil(a / b) *)
Ceil(a, b) == (a + b - 1) \div b

(* the hrefs of page i of the site: the items (i-1)*page_size+1 .. i*page_size *)
PageItems(s, i) ==
    LET lo == (i - 1) * s.page_size
        n == Larger(0, Smaller(s.page_size, s.match_total - lo))
    IN  [k \in 1..n |-> lo + k]

(* match_total if prefix == 'all' or http else (int_or_none(prefix) or 1) *)
Requested(u, total) ==
    IF u.kind \in {"all", "http"} THEN total
    ELSE IF u.kind = "n" THEN u.n ELSE 1

(* min(<requested>, self.get_param('playlistend') or match_total) *)
FirstEnd(u, p, total) ==
    Smaller(Requested(u, total), IF p.playlistend # None THEN p.playlistend ELSE total)

RECURSIVE ItemsEnd(_, _, _, _)
(* the loop over the parsed playlist_items, from item k with items_end e *)
ItemsEnd(items, k, e, end) ==
    IF k > Len(items) THEN e
    ELSE IF items[k].type = "slice"
         THEN ItemsEnd(items, k + 1, IF items[k].v # None THEN Larger(items[k].v, e) ELSE end, end)
         ELSE ItemsEnd(items, k + 1, IF items[k].v > 0 THEN Larger(items[k].v, e) ELSE end, end)

(* result_end after line 385, and after the override of lines 388-395 *)
ResultEnd(u, p, total, per_page) ==
    LET end == FirstEnd(u, p, total)
    IN  IF end > per_page /\ p.playlist_items # <<>>
        THEN ItemsEnd(p.playlist_items, 1, 0, end)
        ELSE end

(* items_per_page = len(playlist) after the first page *)
ItemsPerPage == Len(PageItems(site, 1))

(* the last page of range(2, math.ceil(result_end / items_per_page) + 1) *)
LastPage ==
    IF site.match_total > 0 /\ FirstEnd(url, params, site.match_total) > ItemsPerPage
    THEN Ceil(result_end, ItemsPerPage)
    ELSE 1

(* the download of the first page, match_total, the items of the page, result_end; *)
(* with match_total > 0 and an empty first page the division raises               *)
FirstPage ==
    /\ pc = "search"
    /\ requests' = <<1>>
    /\ IF site.match_total > 0
       THEN /\ playlist' = PageItems(site, 1)
            /\ result_end' = ResultEnd(url, params, site.match_total, ItemsPerPage)
            /\ IF ItemsPerPage = 0
               THEN pc' = "raised" /\ outcome' = <<"ZeroDivisionError">>
               ELSE pc' = "pages" /\ outcome' = outcome
       ELSE /\ playlist' = <<>>
            /\ result_end' = 0
            /\ pc' = "pages"
            /\ outcome' = outcome
    /\ UNCHANGED <<ie, links, episode, current_source, li, ei, src, text, out, ti, yi, entries,
                   webpage, site, params, url, url_prefix, visited, video_id, formats>>

(* one pass of the loop over the pages: the download of page i, its 404 test, its items *)
Page ==
    /\ pc = "pages"
    /\ Len(requests) < LastPage
    /\ LET i == Len(requests) + 1
       IN  /\ requests' = Append(requests, i)
           /\ IF PageItems(site, i) = <<>> /\ site.beyond = "404"
              THEN pc' = "raised" /\ outcome' = <<"ExtractorError">> /\ playlist' = playlist
              ELSE pc' = pc /\ outcome' = outcome /\ playlist' = playlist \o PageItems(site, i)
    /\ UNCHANGED <<ie, links, episode, current_source, li, ei, src, text, out, ti, yi, entries,
                   webpage, site, params, url, url_prefix, visited, video_id, result_end, formats>>

(* entries = [... for x in playlist[:result_end]] and the playlist result *)
Result ==
    /\ pc = "pages"
    /\ Len(requests) >= LastPage
    /\ entries' = SubSeq(playlist, 1, Smaller(result_end, Len(playlist)))
    /\ pc' = "returned"
    /\ UNCHANGED <<ie, links, episode, current_source, li, ei, src, text, out, playlist, ti, yi,
                   webpage, site, params, url, requests, outcome, url_prefix, visited, video_id,
                   result_end, formats>>

NextSearch == FirstPage \/ Page \/ Result

SpecSearch == InitSearch /\ [][NextSearch]_vars

(* C29: the entries returned are never more than the number the prefix asks for,   *)
(* nor more than match_total, whatever playlistend and playlist_items are; pages   *)
(* after the first are requested only when the first page holds fewer items than   *)
(* requested.                                                                      *)
C29_ResultBound ==
    /\ pc = "returned" =>
          /\ Len(entries) <= Requested(url, site.match_total)
          /\ Len(entries) <= site.match_total
    /\ Len(requests) > 1 => ItemsPerPage < FirstEnd(url, params, site.match_total)

(* without playlist_items the entries are within the prefix, playlistend and match_total *)
C29_WithoutItems ==
    (pc = "returned" /\ params.playlist_items = <<>>) =>
        Len(entries) = Smaller(FirstEnd(url, params, site.match_total), Len(playlist))

(* pages after the first are requested only when the first page is short, and the *)
(* pages requested are 2 .. ceil(result_end / items_per_page)                     *)
C29_PagesWhenShort ==
    /\ Len(requests) > 1 => ItemsPerPage < FirstEnd(url, params, site.match_total)
    /\ \A k \in 1..Len(requests) : requests[k] = k
    /\ pc = "returned" => Len(requests) = LastPage

(* the entries are never more than match_total *)
C29_WithinTotal == pc = "returned" => Len(entries) <= site.match_total

(***************************************************************************)
(* IdoltvIE._real_extract: the formats or entries of the current source,   *)
(* the loop over the other sources, the formats or entries of each link    *)
(* the loop accepted, and the choice of the result.                        *)
(***************************************************************************)
MaxSelectLinks == 2

SelectLabels == {D250630, D250701, D250632}

SelectRefs == {D250630, D250701}

(* what _extract_formats returns: nothing ({} or None), a dict with 'formats', or the *)
(* playlist of an embedded page with 'entries'                                        *)
Fmts ==
    {[kind |-> "none", list |-> <<>>]}
    \cup {[kind |-> "formats", list |-> l] : l \in {<<"f1">>, <<"f1", "f2">>, <<"f2", "f2">>}}
    \cup {[kind |-> "entries", list |-> l] : l \in {<<>>, <<"e1">>}}

(* the site: what the player of the current page gives, and what the player of the *)
(* pages of each tab gives                                                         *)
SelectSites == [current : Fmts, other : [1..MaxSelectLinks -> Fmts]]

InitSelect ==
    /\ ie = "idoltv"
    /\ links \in {WithHrefs(p) : p \in Pages(SelectLabels, MaxSelectLinks)}
    /\ episode \in SelectRefs
    /\ site \in SelectSites
    /\ current_source = "A"
    /\ pc = "current"
    /\ li = 1
    /\ ei = 1
    /\ src = <<>>
    /\ text = <<>>
    /\ out = <<>>
    /\ playlist = <<>>
    /\ ti = 1
    /\ yi = 1
    /\ entries = <<>>
    /\ webpage = links
    /\ formats = <<>>
    /\ outcome = <<>>
    /\ params = <<>>
    /\ url = <<>>
    /\ requests = <<>>
    /\ url_prefix = <<>>
    /\ visited = {}
    /\ video_id = <<>>
    /\ result_end = 0

RECURSIVE AddFormats(_, _, _)
(* for f in fmt['formats']: if f not in formats: formats.append(f) *)
AddFormats(fs, new, k) ==
    IF k > Len(new) THEN fs
    ELSE AddFormats(IF InList(new[k], fs) THEN fs ELSE Append(fs, new[k]), new, k + 1)

(* ... and not formats *)
NotFormats(fs) == fs = <<>>

(* the formats or entries of the player of the current page *)
Current ==
    /\ pc = "current"
    /\ IF site.current.kind = "entries"
       THEN entries' = site.current.list /\ formats' = formats
       ELSE IF site.current.kind = "formats"
            THEN formats' = AddFormats(formats, site.current.list, 1) /\ entries' = entries
            ELSE UNCHANGED <<formats, entries>>
    /\ pc' = "loop"
    /\ UNCHANGED <<ie, links, episode, current_source, li, ei, src, text, out, playlist, ti, yi,
                   webpage, site, params, url, requests, outcome, url_prefix, visited, video_id,
                   result_end>>

(* one pass of "for x in other_src": the page of the link and its formats or entries *)
Other ==
    /\ pc = "done"
    /\ yi <= Len(src)
    /\ LET fmt == site.other[src[yi][1][1]]
       IN  /\ requests' = Append(requests, src[yi][1])
           /\ IF fmt.kind = "entries" /\ NotFormats(formats)
              THEN entries' = fmt.list /\ formats' = formats
              ELSE IF fmt.kind = "formats"
                   THEN formats' = AddFormats(formats, fmt.list, 1) /\ entries' = entries
                   ELSE UNCHANGED <<formats, entries>>
    /\ yi' = yi + 1
    /\ UNCHANGED <<ie, links, episode, current_source, pc, li, ei, src, text, out, playlist, ti,
                   webpage, site, params, url, outcome, url_prefix, visited, video_id, result_end>>

(* if formats: return info_dict / elif entries: return playlist_result / else: raise_no_formats *)
Select ==
    /\ pc = "done"
    /\ yi > Len(src)
    /\ IF formats # <<>>
       THEN pc' = "returned" /\ outcome' = <<"video">>
       ELSE IF entries # <<>>
            THEN pc' = "returned" /\ outcome' = <<"playlist">>
            ELSE pc' = "unavailable" /\ outcome' = <<"Video unavailable">>
    /\ UNCHANGED <<ie, links, episode, current_source, li, ei, src, text, out, playlist, ti, yi,
                   entries, webpage, site, params, url, requests, url_prefix, visited, video_id,
                   result_end, formats>>

NextSelect == Current \/ Iterate \/ Return \/ Other \/ Select

SpecSelect == InitSelect /\ [][NextSelect]_vars

(* the call of _real_extract is over *)
Over == pc \in {"returned", "unavailable", "raised"}

(* the fmt of the sources _extract_formats was called for so far *)
FmtsSoFar ==
    (IF pc # "current" THEN {site.current} ELSE {})
    \cup {site.other[src[k][1][1]] : k \in 1..(IF pc = "loop" THEN 0 ELSE Smaller(yi - 1, Len(src)))}

FormatsProduced == UNION {{f.list[k] : k \in 1..Len(f.list)} : f \in {g \in FmtsSoFar : g.kind = "formats"}}

EntriesProduced == \E f \in FmtsSoFar : f.kind = "entries" /\ f.list # <<>>

(* the choice of the result, given what the sources produced *)
Selection ==
    /\ FormatsProduced # {} =>
          /\ outcome = <<"video">>
          /\ {formats[k] : k \in 1..Len(formats)} = FormatsProduced
          /\ \A a, b \in 1..Len(formats) : a # b => formats[a] # formats[b]
    /\ outcome = <<"playlist">> => (FormatsProduced = {} /\ EntriesProduced /\ entries # <<>>)
    /\ (FormatsProduced = {} /\ ~EntriesProduced) => outcome # <<"video">> /\ outcome # <<"playlist">>

(* C30: when the current source or a reconciled source produced a format, the result *)
(* is one video with those formats, each once, and never a playlist; a playlist is   *)
(* returned only when no format was produced and a source produced entries; with     *)
(* neither, the extractor reports 'Video unavailable' and returns no result.         *)
C30_Selection == Over => Selection

(* the selection holds of every call that reaches the choice of the result *)
C30_WhenChosen == pc \in {"returned", "unavailable"} => Selection

(* with neither formats nor entries a call that reaches the choice reports 'Video unavailable' *)
C30_Unavailable ==
    (pc \in {"returned", "unavailable"} /\ FormatsProduced = {} /\ ~EntriesProduced) =>
        outcome = <<"Video unavailable">>

====
